---- MODULE Spec2Model ----
(***************************************************************************)
(* Model of validate_ifc.py: main() resolves the command line, constructs  *)
(* an IFCValidator (which opens the file through the IFC provider), and    *)
(* validate_all() runs seven checks in sequence, each appending findings   *)
(* to errors / warnings / info, then print_results() reports them and the  *)
(* process exits with 0 or 1.                                              *)
(*                                                                         *)
(* The opened IFC model is represented by what the checks read from it:    *)
(* the schema name, the entities by_type returns (in file order) and the   *)
(* attributes the checks inspect.  An attribute value is a tagged record   *)
(*   [k |-> "null",   v |-> ""]    Python None                             *)
(*   [k |-> "raw",    v |-> "0.0"] a bare number where an entity was due   *)
(*   [k |-> "entity", v |-> type]  an entity_instance of that IFC type     *)
(*   [k |-> "str",    v |-> text]  a string                                *)
(* and a list-valued attribute is [k |-> "null" or "list", v |-> <<...>>]. *)
(* A finding is the f-string that the code appends: its template text and  *)
(* the values interpolated into it (the leading check-mark glyph of the    *)
(* info lines is left out of the template text).                           *)
(***************************************************************************)
EXTENDS Integers, Sequences, FiniteSets, TLC

VARIABLES input, pc, errors, warnings, info, calls, stdout, opens, exc,
          success, exitStatus

vars == <<input, pc, errors, warnings, info, calls, stdout, opens, exc,
          success, exitStatus>>

(* ---------------------------------------------------------------------- *)
(* Bounds of the explored inputs                                           *)
(* ---------------------------------------------------------------------- *)
MaxProjects == 2
MaxUnits == 2
MaxProducts == 2
MaxAggregates == 2
MaxRelated == 2
MaxContainments == 2

(* ---------------------------------------------------------------------- *)
(* Python values and the operations the code applies to them               *)
(* ---------------------------------------------------------------------- *)
Null == [k |-> "null", v |-> ""]
Raw(x) == [k |-> "raw", v |-> x]
Ent(t) == [k |-> "entity", v |-> t]
Str(s) == [k |-> "str", v |-> s]
NullList == [k |-> "null", v |-> <<>>]
List(s) == [k |-> "list", v |-> s]

\* bool(x), the test behind `not x`: None, 0.0, "" and empty lists are false
Truthy(x) ==
    CASE x.k = "null" -> FALSE
      [] x.k = "raw" -> x.v # "0.0"
      [] x.k = "str" -> x.v # ""
      [] x.k = "list" -> Len(x.v) > 0
      [] OTHER -> TRUE

\* hasattr(x, 'is_a'): only entity instances can report their type
HasIsA(x) == x.k = "entity"

\* x.is_a(t) for the leaf types used here
IsA(x, t) == x.k = "entity" /\ x.v = t

\* str(x) as an f-string interpolates it
Format(x) == IF x.k = "null" THEN "None" ELSE x.v

Msg(text, strs, nums) == [text |-> text, strs |-> strs, nums |-> nums]

AddError(f, m) == [f EXCEPT !.errors = Append(@, m)]
AddWarning(f, m) == [f EXCEPT !.warnings = Append(@, m)]
AddInfo(f, m) == [f EXCEPT !.info = Append(@, m)]
Raise(f, e) == [f EXCEPT !.exc = e]

\* model.by_type(t), in file order
by_type(m, t) ==
    CASE t = "IfcProject" -> m.projects
      [] t = "IfcRelAggregates" -> m.aggregates
      [] t = "IfcRelContainedInSpatialStructure" -> m.containments
      [] t = "IfcProduct" -> m.products
      [] OTHER -> SelectSeq(m.products, LAMBDA p : p.type = t)

(* ---------------------------------------------------------------------- *)
(* validate_schema                                                         *)
(* ---------------------------------------------------------------------- *)
validate_schema(m, f) ==
    LET schema == m.schema IN
    IF schema # "IFC4"
    THEN AddError(f, Msg("Schema must be IFC4, found: {}", <<schema>>, <<>>))
    ELSE AddInfo(f, Msg("Schema: {}", <<schema>>, <<>>))

(* ---------------------------------------------------------------------- *)
(* validate_units                                                          *)
(* ---------------------------------------------------------------------- *)
\* hasattr(unit, 'UnitType') and unit.UnitType == 'LENGTHUNIT'
UnitIsLength(unit) == unit.hasUnitType /\ unit.UnitType = "LENGTHUNIT"

\* the for ... break scan: index of the first length unit at or after i, 0 if none
RECURSIVE FirstLengthUnit(_, _)
FirstLengthUnit(units, i) ==
    IF i > Len(units) THEN 0
    ELSE IF UnitIsLength(units[i]) THEN i
    ELSE FirstLengthUnit(units, i + 1)

\* the classification of the unit found by the scan (i = 0: length_unit is None)
LengthUnitFinding(units, i, f) ==
    IF i = 0
    THEN AddError(f, Msg("No LENGTHUNIT found in UnitsInContext", <<>>, <<>>))
    ELSE LET length_unit == units[i] IN
         IF length_unit.hasPrefix /\ length_unit.Prefix = Str("MILLI")
         THEN AddInfo(f, Msg("Units: MILLIMETRE (correct)", <<>>, <<>>))
         ELSE LET prefix == IF length_unit.hasPrefix
                            THEN Format(length_unit.Prefix)
                            ELSE "None"
              IN AddWarning(f, Msg("Units: {}METRE (spec requires MILLIMETRE)",
                                   <<prefix>>, <<>>))

validate_units(m, f) ==
    LET projects == by_type(m, "IfcProject") IN
    IF Len(projects) = 0
    THEN AddError(f, Msg("No IfcProject found", <<>>, <<>>))
    ELSE LET project == projects[1] IN
         IF ~Truthy(project.UnitsInContext)
         THEN AddError(f, Msg("IfcProject.UnitsInContext is null (must be entity reference)",
                              <<>>, <<>>))
         ELSE LET units == project.UnitsInContext IN
              \* `for unit in units.Units` with Units None raises TypeError
              IF units.Units.k = "null"
              THEN Raise(f, "'NoneType' object is not iterable")
              ELSE LengthUnitFinding(units.Units.v,
                                     FirstLengthUnit(units.Units.v, 1), f)

(* ---------------------------------------------------------------------- *)
(* validate_spatial_hierarchy                                              *)
(* ---------------------------------------------------------------------- *)
\* the three by_type look-ups that follow the Project part
SpatialStructureFindings(m, f) ==
    LET sites == by_type(m, "IfcSite")
        buildings == by_type(m, "IfcBuilding")
        storeys == by_type(m, "IfcBuildingStorey")
        f1 == IF Len(sites) = 0
              THEN AddError(f, Msg("No IfcSite found (required)", <<>>, <<>>))
              ELSE AddInfo(f, Msg("Found {} IfcSite(s)", <<>>, <<Len(sites)>>))
        f2 == IF Len(buildings) = 0
              THEN AddError(f1, Msg("No IfcBuilding found (required)", <<>>, <<>>))
              ELSE AddInfo(f1, Msg("Found {} IfcBuilding(s)", <<>>, <<Len(buildings)>>))
    IN  IF Len(storeys) = 0
        THEN AddError(f2, Msg("No IfcBuildingStorey found (CRITICAL - required for valid hierarchy)",
                              <<>>, <<>>))
        ELSE AddInfo(f2, Msg("Found {} IfcBuildingStorey(s)", <<>>, <<Len(storeys)>>))

validate_spatial_hierarchy(m, f) ==
    LET projects == by_type(m, "IfcProject") IN
    IF Len(projects) = 0
    THEN AddError(f, Msg("No IfcProject found", <<>>, <<>>))
    ELSE LET project == projects[1]
             f1 == IF ~Truthy(project.RepresentationContexts)
                   THEN AddError(f, Msg("IfcProject.RepresentationContexts is null (must be entity list)",
                                        <<>>, <<>>))
                   ELSE AddInfo(f, Msg("Project has {} representation context(s)",
                                       <<>>, <<Len(project.RepresentationContexts.v)>>))
         IN SpatialStructureFindings(m, f1)

(* ---------------------------------------------------------------------- *)
(* validate_no_float_placements                                            *)
(* ---------------------------------------------------------------------- *)
\* the loop body for one product
PlacementFinding(product, f) ==
    IF ~Truthy(product.ObjectPlacement)
    THEN AddError(f, Msg("{}: ObjectPlacement is null (must be IfcLocalPlacement)",
                         <<Format(product.Name)>>, <<>>))
    ELSE IF ~HasIsA(product.ObjectPlacement)
    THEN AddError(f, Msg("{}: ObjectPlacement is not an IFC entity (possibly float)",
                         <<Format(product.Name)>>, <<>>))
    ELSE IF ~IsA(product.ObjectPlacement, "IfcLocalPlacement")
    THEN AddWarning(f, Msg("{}: ObjectPlacement is {} (expected IfcLocalPlacement)",
                           <<Format(product.Name), product.ObjectPlacement.v>>, <<>>))
    ELSE f

RECURSIVE PlacementLoop(_, _, _)
PlacementLoop(products, i, f) ==
    IF i > Len(products) THEN f
    ELSE PlacementLoop(products, i + 1, PlacementFinding(products[i], f))

validate_no_float_placements(m, f) ==
    LET products == by_type(m, "IfcProduct") IN
    AddInfo(PlacementLoop(products, 1, f),
            Msg("Checked {} products for valid placements", <<>>, <<Len(products)>>))

(* ---------------------------------------------------------------------- *)
(* validate_products                                                       *)
(* ---------------------------------------------------------------------- *)
SpatialTypes == {"IfcProject", "IfcSite", "IfcBuilding", "IfcBuildingStorey"}

\* ProductFinding without the `continue` after the geometry warning
ProductFindingNoContinue(product, f) ==
    IF product.type \in SpatialTypes THEN f
    ELSE LET f1 == IF ~Truthy(product.Representation)
                   THEN AddWarning(f, Msg("{}: No Representation (geometry missing)",
                                          <<Format(product.Name)>>, <<>>))
                   ELSE f
         IN  IF ~Truthy(product.ObjectType)
             THEN AddWarning(f1, Msg("{}: ObjectType not set (should be Boscotek code)",
                                     <<Format(product.Name)>>, <<>>))
             ELSE f1

\* the loop body for one product
ProductFinding(product, f) ==
    IF product.type \in SpatialTypes THEN f
    ELSE IF ~Truthy(product.Representation)
    THEN AddWarning(f, Msg("{}: No Representation (geometry missing)",
                           <<Format(product.Name)>>, <<>>))
    ELSE IF ~Truthy(product.ObjectType)
    THEN AddWarning(f, Msg("{}: ObjectType not set (should be Boscotek code)",
                           <<Format(product.Name)>>, <<>>))
    ELSE f

RECURSIVE ProductLoop(_, _, _)
ProductLoop(products, i, f) ==
    IF i > Len(products) THEN f
    ELSE ProductLoop(products, i + 1, ProductFinding(products[i], f))

validate_products(m, f) ==
    LET products == by_type(m, "IfcProduct")
        furnishings == by_type(m, "IfcFurnishingElement")
    IN  AddInfo(ProductLoop(products, 1, f),
                Msg("Found {} IfcFurnishingElement(s)", <<>>, <<Len(furnishings)>>))

(* ---------------------------------------------------------------------- *)
(* validate_property_sets                                                  *)
(* ---------------------------------------------------------------------- *)
required_props == <<"BoscotekCode", "Family", "Manufacturer">>

\* PropertySetFinding reporting an absent property set as an error
PropertySetFindingAbsentIsError(product, f) ==
    LET psets == product.psets IN
    IF "Pset_BoscotekCabinet" \in DOMAIN psets
    THEN LET pset == psets["Pset_BoscotekCabinet"]
             missing_props == SelectSeq(required_props, LAMBDA prop : prop \notin pset)
         IN  IF Len(missing_props) > 0
             THEN AddWarning(f, Msg("{}: Missing properties: {}",
                                    <<Format(product.Name)>> \o missing_props, <<>>))
             ELSE AddInfo(f, Msg("{}: Has complete Pset_BoscotekCabinet",
                                 <<Format(product.Name)>>, <<>>))
    ELSE AddError(f, Msg("{}: Missing Pset_BoscotekCabinet property set",
                         <<Format(product.Name)>>, <<>>))

\* the loop body for one furnishing element; product.psets is what
\* ifcopenshell.util.element.get_psets returns for it
PropertySetFinding(product, f) ==
    LET psets == product.psets IN
    IF "Pset_BoscotekCabinet" \in DOMAIN psets
    THEN LET pset == psets["Pset_BoscotekCabinet"]
             missing_props == SelectSeq(required_props, LAMBDA prop : prop \notin pset)
         IN  IF Len(missing_props) > 0
             THEN AddWarning(f, Msg("{}: Missing properties: {}",
                                    <<Format(product.Name)>> \o missing_props, <<>>))
             ELSE AddInfo(f, Msg("{}: Has complete Pset_BoscotekCabinet",
                                 <<Format(product.Name)>>, <<>>))
    ELSE AddWarning(f, Msg("{}: Missing Pset_BoscotekCabinet property set",
                           <<Format(product.Name)>>, <<>>))

RECURSIVE PropertySetLoop(_, _, _)
PropertySetLoop(products, i, f) ==
    IF i > Len(products) THEN f
    ELSE PropertySetLoop(products, i + 1, PropertySetFinding(products[i], f))

validate_property_sets(m, f) ==
    PropertySetLoop(by_type(m, "IfcFurnishingElement"), 1, f)

(* ---------------------------------------------------------------------- *)
(* validate_relationships                                                  *)
(* ---------------------------------------------------------------------- *)
\* RelatedObjectsLoop leaving the loop at the first non-entity member
RECURSIVE RelatedObjectsLoopBreak(_, _, _)
RelatedObjectsLoopBreak(objs, i, f) ==
    IF i > Len(objs) THEN f
    ELSE IF ~HasIsA(objs[i])
    THEN AddError(f, Msg("IfcRelAggregates.RelatedObjects contains non-entity (possibly float)",
                         <<>>, <<>>))
    ELSE RelatedObjectsLoopBreak(objs, i + 1, f)

RECURSIVE RelatedObjectsLoop(_, _, _)
RelatedObjectsLoop(objs, i, f) ==
    IF i > Len(objs) THEN f
    ELSE RelatedObjectsLoop(objs, i + 1,
            IF ~HasIsA(objs[i])
            THEN AddError(f, Msg("IfcRelAggregates.RelatedObjects contains non-entity (possibly float)",
                                 <<>>, <<>>))
            ELSE f)

\* the loop body for one IfcRelAggregates
AggregateFinding(rel, f) ==
    LET f1 == IF ~HasIsA(rel.RelatingObject)
              THEN AddError(f, Msg("IfcRelAggregates.RelatingObject is not an entity (possibly float)",
                                   <<>>, <<>>))
              ELSE f
    IN  IF ~Truthy(rel.RelatedObjects)
        THEN AddError(f1, Msg("IfcRelAggregates.RelatedObjects is empty", <<>>, <<>>))
        ELSE RelatedObjectsLoop(rel.RelatedObjects.v, 1, f1)

\* the loop body for one IfcRelContainedInSpatialStructure
ContainmentFinding(rel, f) ==
    LET f1 == IF ~HasIsA(rel.RelatingStructure)
              THEN AddError(f, Msg("IfcRelContainedInSpatialStructure.RelatingStructure is not an entity",
                                   <<>>, <<>>))
              ELSE f
    IN  IF HasIsA(rel.RelatingStructure)
        THEN IF IsA(rel.RelatingStructure, "IfcBuilding")
             THEN AddWarning(f1, Msg("Products contained in IfcBuilding (should be IfcBuildingStorey)",
                                     <<>>, <<>>))
             ELSE IF IsA(rel.RelatingStructure, "IfcBuildingStorey")
             THEN AddInfo(f1, Msg("Products correctly contained in IfcBuildingStorey",
                                  <<>>, <<>>))
             ELSE f1
        ELSE f1

RECURSIVE AggregateLoop(_, _, _)
AggregateLoop(rels, i, f) ==
    IF i > Len(rels) THEN f
    ELSE AggregateLoop(rels, i + 1, AggregateFinding(rels[i], f))

RECURSIVE ContainmentLoop(_, _, _)
ContainmentLoop(rels, i, f) ==
    IF i > Len(rels) THEN f
    ELSE ContainmentLoop(rels, i + 1, ContainmentFinding(rels[i], f))

validate_relationships(m, f) ==
    LET aggregates == by_type(m, "IfcRelAggregates")
        containments == by_type(m, "IfcRelContainedInSpatialStructure")
    IN  AddInfo(ContainmentLoop(containments, 1, AggregateLoop(aggregates, 1, f)),
                Msg("Validated {} aggregation and {} containment relationships",
                    <<>>, <<Len(aggregates), Len(containments)>>))

(* ---------------------------------------------------------------------- *)
(* print_results, validate_all's return value and main's exit status       *)
(* ---------------------------------------------------------------------- *)
\* one record per print() call, the empty print() included: the kind of line
\* and the text it formats
Line(kind, m) == [kind |-> kind, text |-> m.text, strs |-> m.strs, nums |-> m.nums]
Text(t) == Line("text", Msg(t, <<>>, <<>>))
Banner == Text("======================================================================")

Items(kind, findings) == [j \in 1..Len(findings) |-> Line(kind, findings[j])]

\* FinalStatus testing the warnings before the errors
FinalStatusWarningsFirst(errs, warns) ==
    IF Len(warns) > 0
    THEN << Text("VALIDATION PASSED WITH WARNINGS"),
            Line("text", Msg("{} warning(s)", <<>>, <<Len(warns)>>)) >>
    ELSE IF Len(errs) > 0
    THEN << Text("VALIDATION FAILED"),
            Line("text", Msg("{} error(s), {} warning(s)", <<>>, <<Len(errs), Len(warns)>>)) >>
    ELSE << Text("VALIDATION PASSED"), Text("All checks successful!") >>

\* the closing status block of print_results
FinalStatus(errs, warns) ==
    IF Len(errs) > 0
    THEN << Text("VALIDATION FAILED"),
            Line("text", Msg("{} error(s), {} warning(s)", <<>>, <<Len(errs), Len(warns)>>)) >>
    ELSE IF Len(warns) > 0
    THEN << Text("VALIDATION PASSED WITH WARNINGS"),
            Line("text", Msg("{} warning(s)", <<>>, <<Len(warns)>>)) >>
    ELSE << Text("VALIDATION PASSED"), Text("All checks successful!") >>

print_results(errs, warns, infos) ==
    << Banner, Text("VALIDATION RESULTS"), Banner >>
    \o (IF Len(errs) > 0
        THEN << Line("text", Msg("ERRORS ({}):", <<>>, <<Len(errs)>>)) >>
             \o Items("error", errs) \o << Text("") >>
        ELSE << >>)
    \o (IF Len(warns) > 0
        THEN << Line("text", Msg("WARNINGS ({}):", <<>>, <<Len(warns)>>)) >>
             \o Items("warning", warns) \o << Text("") >>
        ELSE << >>)
    \o (IF Len(infos) > 0
        THEN << Line("text", Msg("PASSED CHECKS ({}):", <<>>, <<Len(infos)>>)) >>
             \o Items("info", infos) \o << Text("") >>
        ELSE << >>)
    \o << Banner >> \o FinalStatus(errs, warns) \o << Banner >>

\* validate_all: return len(self.errors) == 0
Success(errs) == Len(errs) = 0

\* main: sys.exit(0 if success else 1)
ExitCode(ok) == IF ok THEN 0 ELSE 1

\* A path is the sequence of the texts its "/" separators delimit:
\* "a/b/c.ifc" is <<"a", "b", "c.ifc">>, "/abs/x.ifc" is <<"", "abs", "x.ifc">>,
\* "dir/" is <<"dir", "">>.  os.path.basename is what follows the last "/".
Basename(path) == path[Len(path)]

Header(path) ==
    << Banner, Line("text", Msg("IFC VALIDATION: {}", <<Basename(path)>>, <<>>)), Banner >>

(* ---------------------------------------------------------------------- *)
(* The files explored                                                      *)
(* ---------------------------------------------------------------------- *)
SeqsUpTo(S, n) == UNION {[1..len -> S] : len \in 0..n}

SIUnit(unitType, prefix) ==
    [type |-> "IfcSIUnit", hasUnitType |-> TRUE, UnitType |-> unitType,
     hasPrefix |-> TRUE, Prefix |-> prefix]
ConversionBasedUnit(unitType) ==
    [type |-> "IfcConversionBasedUnit", hasUnitType |-> TRUE, UnitType |-> unitType,
     hasPrefix |-> FALSE, Prefix |-> Null]
MonetaryUnit ==
    [type |-> "IfcMonetaryUnit", hasUnitType |-> FALSE, UnitType |-> "",
     hasPrefix |-> FALSE, Prefix |-> Null]

UnitKinds ==
    { SIUnit("LENGTHUNIT", Str("MILLI")), SIUnit("LENGTHUNIT", Null),
      SIUnit("LENGTHUNIT", Str("CENTI")), ConversionBasedUnit("LENGTHUNIT"),
      SIUnit("MASSUNIT", Str("MILLI")), MonetaryUnit }

NoUnitAssignment == [k |-> "null", v |-> "", Units |-> NullList]
UnitAssignment(units) == [k |-> "entity", v |-> "IfcUnitAssignment", Units |-> units]

Project(units, contexts) == [UnitsInContext |-> units, RepresentationContexts |-> contexts]

UnitContexts ==
    {NoUnitAssignment, UnitAssignment(NullList)}
    \cup {UnitAssignment(List(us)) : us \in SeqsUpTo(UnitKinds, MaxUnits)}

ContextLists == {NullList, List(<< >>), List(<<"Model">>), List(<<"Model", "Plan">>)}

GoodProject ==
    Project(UnitAssignment(List(<<SIUnit("LENGTHUNIT", Str("MILLI"))>>)), List(<<"Model">>))
BareProject == Project(NoUnitAssignment, NullList)
MetreProject ==
    Project(UnitAssignment(List(<<SIUnit("LENGTHUNIT", Null)>>)), List(<<"Model">>))

\* the first project ranges over every unit context (with one context list)
\* and over every context list (with three unit contexts), the projects after
\* it over two
FirstProjects ==
    {Project(u, List(<<"Model">>)) : u \in UnitContexts}
    \cup {Project(u, c) :
            u \in {NoUnitAssignment, UnitAssignment(NullList),
                   UnitAssignment(List(<<SIUnit("LENGTHUNIT", Str("CENTI"))>>))},
            c \in ContextLists}
ProjectLists ==
    {<< >>}
    \cup { <<p>> \o rest :
             p \in FirstProjects,
             rest \in SeqsUpTo({GoodProject, BareProject}, MaxProjects - 1) }

Product(t, name, placement, representation, objectType, psets) ==
    [type |-> t, Name |-> name, ObjectPlacement |-> placement,
     Representation |-> representation, ObjectType |-> objectType, psets |-> psets]

Placements ==
    {Null, Raw("0.0"), Raw("1.5"), Ent("IfcLocalPlacement"), Ent("IfcGridPlacement")}
Local == Ent("IfcLocalPlacement")
Shape == Ent("IfcProductDefinitionShape")
Code == Str("BTCS.700.560")

\* what get_psets returns: property-set name -> the property names it holds
NoPsets == [n \in {} |-> {}]
OtherPset == [n \in {"Pset_ManufacturerTypeInformation"} |-> {"id", "Manufacturer"}]
Cabinet(props) == [n \in {"Pset_BoscotekCabinet"} |-> props \cup {"id"}]
AllProps == {"BoscotekCode", "Family", "Manufacturer"}
PsetKinds == {NoPsets, OtherPset} \cup {Cabinet(props) : props \in SUBSET AllProps}

Site(pl) == Product("IfcSite", Str("Site"), pl, Null, Null, NoPsets)
Building(pl) == Product("IfcBuilding", Str("Building"), pl, Null, Null, NoPsets)
Storey(pl) == Product("IfcBuildingStorey", Str("Level 1"), pl, Null, Null, NoPsets)
Wall(pl, rep, ot) == Product("IfcWall", Str("Wall"), pl, rep, ot, NoPsets)
Furnishing(pl, rep, ot, ps) ==
    Product("IfcFurnishingElement", Str("Cabinet"), pl, rep, ot, ps)

GeometryKinds ==
    { <<Null, Null>>, <<Null, Code>>, <<Shape, Null>>, <<Shape, Str("")>>, <<Shape, Code>> }

ProductKinds ==
    {Site(Null), Building(Raw("1.5")), Storey(Ent("IfcGridPlacement"))}
    \cup {Wall(pl, Shape, Code) : pl \in Placements}
    \cup {Wall(Local, g[1], g[2]) : g \in GeometryKinds}
    \cup {Furnishing(Local, Shape, Code, ps) : ps \in PsetKinds}
    \cup {Product("IfcFurnishingElement", Null, Null, Null, Null, NoPsets)}

Hierarchy == << Site(Local), Building(Local), Storey(Local) >>
GoodCabinet == Furnishing(Local, Shape, Code, Cabinet(AllProps))

\* every sub-list of the spatial hierarchy, in file order
HierarchyParts ==
    { (IF s THEN <<Site(Local)>> ELSE << >>)
      \o (IF b THEN <<Building(Local)>> ELSE << >>)
      \o (IF l THEN <<Storey(Local)>> ELSE << >>) : s, b, l \in BOOLEAN }

ProductLists == {Hierarchy \o tail : tail \in SeqsUpTo(ProductKinds, MaxProducts)}

Aggregate(relating, related) == [RelatingObject |-> relating, RelatedObjects |-> related]
RelatedKinds == {Ent("IfcSite"), Raw("0.0")}
RelatedLists ==
    {NullList} \cup {List(objs) : objs \in SeqsUpTo(RelatedKinds, MaxRelated)}
\* an entity relating object with every related list, and a null or raw
\* relating object with a null, a good and an all-raw related list
AggregateKinds ==
    {Aggregate(Ent("IfcProject"), o) : o \in RelatedLists}
    \cup { Aggregate(r, o) :
              r \in {Null, Raw("1.5")},
              o \in { NullList, List(<<Ent("IfcSite")>>),
                      List([j \in 1..MaxRelated |-> Raw("0.0")]) } }
GoodAggregate == Aggregate(Ent("IfcProject"), List(<<Ent("IfcSite")>>))
RawAggregate == Aggregate(Raw("1.5"), List([j \in 1..MaxRelated |-> Raw("0.0")]))
EmptyAggregate == Aggregate(Ent("IfcProject"), List(<< >>))
\* the first aggregation ranges over every kind, those after it over three
AggregateLists ==
    {<< >>}
    \cup { <<a>> \o rest :
              a \in AggregateKinds,
              rest \in SeqsUpTo({GoodAggregate, RawAggregate, EmptyAggregate},
                                MaxAggregates - 1) }

Containment(structure) == [RelatingStructure |-> structure]
ContainmentKinds ==
    { Containment(x) :
        x \in {Null, Raw("1.5"), Ent("IfcBuilding"), Ent("IfcBuildingStorey"), Ent("IfcSite")} }
InStorey == Containment(Ent("IfcBuildingStorey"))
ContainmentLists == SeqsUpTo(ContainmentKinds, MaxContainments)

File(schema, projects, products, aggregates, containments) ==
    [schema |-> schema, projects |-> projects, products |-> products,
     aggregates |-> aggregates, containments |-> containments]

Conformant ==
    File("IFC4", <<GoodProject>>, Hierarchy \o <<GoodCabinet>>, <<GoodAggregate>>, <<InStorey>>)

\* files that vary one part in full and keep the rest conformant, and the
\* combinations of a few values of every part
Files ==
    {[Conformant EXCEPT !.projects = ps] : ps \in ProjectLists}
    \cup {[Conformant EXCEPT !.products = ps] : ps \in ProductLists}
    \cup {[Conformant EXCEPT !.projects = pj, !.products = ps \o tail] :
            pj \in {<< >>, <<GoodProject>>, <<BareProject>>},
            ps \in HierarchyParts, tail \in {<< >>, <<GoodCabinet>>}}
    \cup {[Conformant EXCEPT !.aggregates = as] : as \in AggregateLists}
    \cup {[Conformant EXCEPT !.containments = cs] : cs \in ContainmentLists}
    \cup { File(sch, pj, ps, as, cs) :
             sch \in {"IFC4", "IFC2X3"},
             pj \in {<< >>, <<GoodProject>>, <<MetreProject>>},
             ps \in { << >>, Hierarchy \o <<GoodCabinet>>,
                      <<Building(Null), Wall(Raw("0.0"), Null, Null)>> },
             as \in { << >>, <<GoodAggregate>>, <<Aggregate(Raw("1.5"), List(<< >>))>> },
             cs \in { << >>, <<InStorey>>, <<Containment(Ent("IfcBuilding"))>> } }

Path == << "exports", "cabinet.ifc" >>
Paths ==
    { Path, << "cabinet.ifc" >>, << "", "abs", "dir", "x.ifc" >>, << "dir", "" >> }

\* the command line, whether the path exists, whether the provider can open
\* it, and what the file holds
Inputs ==
    { [argv |-> << >>, exists |-> FALSE, opens |-> FALSE, file |-> Conformant] }
    \cup { [argv |-> <<path>>, exists |-> e, opens |-> FALSE, file |-> Conformant] :
             path \in Paths, e \in BOOLEAN }
    \cup { [argv |-> <<path>>, exists |-> TRUE, opens |-> TRUE, file |-> Conformant] :
             path \in {q \in Paths : Basename(q) # ""} }
    \cup { [argv |-> <<Path>>, exists |-> TRUE, opens |-> TRUE, file |-> file] :
             file \in Files }

(* ---------------------------------------------------------------------- *)
(* The run                                                                 *)
(* ---------------------------------------------------------------------- *)
Init ==
    /\ input \in Inputs
    /\ pc = "main"
    /\ errors = << >>
    /\ warnings = << >>
    /\ info = << >>
    /\ calls = << >>
    /\ stdout = << >>
    /\ opens = 0
    /\ exc = ""
    /\ success = FALSE
    /\ exitStatus = -1

\* main: len(sys.argv) < 2
MainUsage ==
    /\ pc = "main"
    /\ Len(input.argv) < 1
    /\ stdout' = stdout \o << Text("Usage: python validate_ifc.py <path_to_ifc_file>"),
                              Text("Example:"),
                              Text("  python validate_ifc.py Boscotek_prod-hd-cabinet_BTCS.700.560_CFG123_LEAD456.ifc") >>
    /\ exitStatus' = 1
    /\ pc' = "exited"
    /\ UNCHANGED <<input, errors, warnings, info, calls, opens, exc, success>>

\* main: not os.path.exists(ifc_file)
MainFileNotFound ==
    /\ pc = "main"
    /\ Len(input.argv) >= 1
    /\ ~input.exists
    /\ stdout' = Append(stdout, Line("text", Msg("ERROR: File not found: {}",
                                                 input.argv[1], <<>>)))
    /\ exitStatus' = 1
    /\ pc' = "exited"
    /\ UNCHANGED <<input, errors, warnings, info, calls, opens, exc, success>>

\* Construct with the header printed before the file is opened
ConstructPrintsHeader ==
    /\ pc = "main"
    /\ Len(input.argv) >= 1
    /\ input.exists
    /\ errors' = << >>
    /\ warnings' = << >>
    /\ info' = << >>
    /\ opens' = opens + 1
    /\ stdout' = stdout \o Header(input.argv[1])
    /\ IF input.opens
       THEN pc' = "validate_all" /\ exc' = exc
       ELSE pc' = "except" /\ exc' = "Failed to open IFC file: {}"
    /\ UNCHANGED <<input, calls, success, exitStatus>>

\* IFCValidator.__init__: empty finding lists, then ifcopenshell.open
Construct ==
    /\ pc = "main"
    /\ Len(input.argv) >= 1
    /\ input.exists
    /\ errors' = << >>
    /\ warnings' = << >>
    /\ info' = << >>
    /\ opens' = opens + 1
    /\ IF input.opens
       THEN pc' = "validate_all" /\ exc' = exc
       ELSE pc' = "except" /\ exc' = "Failed to open IFC file: {}"
    /\ UNCHANGED <<input, calls, stdout, success, exitStatus>>

\* validate_all: the header printed before the first check
PrintHeader ==
    /\ pc = "validate_all"
    /\ stdout' = stdout \o Header(input.argv[1])
    /\ pc' = "validate_schema"
    /\ UNCHANGED <<input, errors, warnings, info, calls, opens, exc, success, exitStatus>>

Findings == [errors |-> errors, warnings |-> warnings, info |-> info, exc |-> ""]

\* one call of validate_all: the check's appends, or the exception it raises
Call(check, r, next) ==
    /\ pc = check
    /\ calls' = Append(calls, check)
    /\ errors' = r.errors
    /\ warnings' = r.warnings
    /\ info' = r.info
    /\ exc' = r.exc
    /\ pc' = IF r.exc = "" THEN next ELSE "except"
    /\ UNCHANGED <<input, stdout, opens, success, exitStatus>>

CheckSchema ==
    Call("validate_schema", validate_schema(input.file, Findings), "validate_units")
CheckUnits ==
    Call("validate_units", validate_units(input.file, Findings),
         "validate_spatial_hierarchy")
CheckSpatialHierarchy ==
    Call("validate_spatial_hierarchy",
         validate_spatial_hierarchy(input.file, Findings), "validate_no_float_placements")
CheckPlacements ==
    Call("validate_no_float_placements",
         validate_no_float_placements(input.file, Findings), "validate_products")
CheckProducts ==
    Call("validate_products", validate_products(input.file, Findings),
         "validate_property_sets")
CheckPropertySets ==
    Call("validate_property_sets", validate_property_sets(input.file, Findings),
         "validate_relationships")
CheckRelationships ==
    Call("validate_relationships", validate_relationships(input.file, Findings),
         "print_results")

PrintResults ==
    /\ pc = "print_results"
    /\ calls' = Append(calls, "print_results")
    /\ stdout' = stdout \o print_results(errors, warnings, info)
    /\ pc' = "return"
    /\ UNCHANGED <<input, errors, warnings, info, opens, exc, success, exitStatus>>

\* validate_all returns and main exits with the status it maps to
Return ==
    /\ pc = "return"
    /\ success' = Success(errors)
    /\ exitStatus' = ExitCode(success')
    /\ pc' = "exited"
    /\ UNCHANGED <<input, errors, warnings, info, calls, stdout, opens, exc>>

\* main: except Exception as e
MainExcept ==
    /\ pc = "except"
    /\ stdout' = Append(stdout, Line("text", Msg("ERROR: {}", <<exc>>, <<>>)))
    /\ exitStatus' = 1
    /\ pc' = "exited"
    /\ UNCHANGED <<input, errors, warnings, info, calls, opens, exc, success>>

Next ==
    \/ MainUsage
    \/ MainFileNotFound
    \/ Construct
    \/ PrintHeader
    \/ CheckSchema
    \/ CheckUnits
    \/ CheckSpatialHierarchy
    \/ CheckPlacements
    \/ CheckProducts
    \/ CheckPropertySets
    \/ CheckRelationships
    \/ PrintResults
    \/ Return
    \/ MainExcept

Spec == Init /\ [][Next]_vars

(* ---------------------------------------------------------------------- *)
(* Properties                                                              *)
(* ---------------------------------------------------------------------- *)
\* the findings a step appended, and that it only appended
NewOf(after, before) == SubSeq(after, Len(before) + 1, Len(after))
Grows(after, before) ==
    Len(after) >= Len(before) /\ SubSeq(after, 1, Len(before)) = before
Occurrences(findings, text, strs) ==
    Cardinality({j \in DOMAIN findings :
                    findings[j].text = text /\ findings[j].strs = strs})
WithText(findings, text) ==
    Cardinality({j \in DOMAIN findings : findings[j].text = text})
NameText(product) == IF product.Name.k = "null" THEN "None" ELSE product.Name.v

\* the file was found and the provider opened it
Launched == Len(input.argv) >= 1 /\ input.exists /\ input.opens
AllCalls ==
    << "validate_schema", "validate_units", "validate_spatial_hierarchy",
       "validate_no_float_placements", "validate_products",
       "validate_property_sets", "validate_relationships", "print_results" >>
Completed == pc = "exited" /\ calls = AllCalls

Outcome ==
    IF Len(errors) > 0 THEN "Fail"
    ELSE IF Len(warnings) > 0 THEN "PassWithWarnings"
    ELSE "Pass"
BannerOf(outcome) ==
    CASE outcome = "Fail" -> "VALIDATION FAILED"
      [] outcome = "PassWithWarnings" -> "VALIDATION PASSED WITH WARNINGS"
      [] OTHER -> "VALIDATION PASSED"
PrintedBanners ==
    {stdout[j].text : j \in DOMAIN stdout}
    \cap {"VALIDATION FAILED", "VALIDATION PASSED WITH WARNINGS", "VALIDATION PASSED"}

\* C1: when all seven checks and the reporter have run, validate_all returned
\* true and the exit status is 0 exactly when there is no error (whatever the
\* warnings), the status is 1 otherwise, and the one banner printed is the one
\* of the outcome Fail / PassWithWarnings / Pass derived from errors, warnings.
C1_OutcomeDecidesExit ==
    Completed =>
        /\ success = (Len(errors) = 0)
        /\ exitStatus = (IF Len(errors) = 0 THEN 0 ELSE 1)
        /\ PrintedBanners = {BannerOf(Outcome)}

C1_Witness ==
    /\ Completed
    /\ Len(errors) = 0
    /\ Len(warnings) > 0
    /\ exitStatus = 0
    /\ PrintedBanners = {"VALIDATION PASSED WITH WARNINGS"}

NoSpatialStructure ==
    \A j \in DOMAIN input.file.products :
        input.file.products[j].type \notin {"IfcSite", "IfcBuilding", "IfcBuildingStorey"}

\* C2: a run on a file with no IfcSite, no IfcBuilding and no IfcBuildingStorey,
\* whatever else the file holds, ends with status 1 and with an error for each
\* of the three missing types, the storey one marked CRITICAL.
C2_ThreeErrorsWhateverElse ==
    (pc = "exited" /\ Launched /\ NoSpatialStructure) =>
        /\ exitStatus = 1
        /\ WithText(errors, "No IfcSite found (required)") >= 1
        /\ WithText(errors, "No IfcBuilding found (required)") >= 1
        /\ WithText(errors,
              "No IfcBuildingStorey found (CRITICAL - required for valid hierarchy)") >= 1

Products == input.file.products
SameName(a, b) == NameText(a) = NameText(b)

\* C3: the placement check visits every product and appends, per product, one
\* null-placement error if the placement is null, one "possibly float" error
\* if it is any raw value, one warning naming the type if it is an entity
\* other than IfcLocalPlacement, nothing if it is an IfcLocalPlacement; then
\* one info with the number of products.
C3_PlacementByKind ==
    [][pc = "validate_no_float_placements" =>
        LET ne == NewOf(errors', errors)
            nw == NewOf(warnings', warnings)
            ni == NewOf(info', info)
            nulls == {j \in DOMAIN Products : Products[j].ObjectPlacement.k = "null"}
            raws == {j \in DOMAIN Products : Products[j].ObjectPlacement.k = "raw"}
            others == {j \in DOMAIN Products :
                          /\ Products[j].ObjectPlacement.k = "entity"
                          /\ Products[j].ObjectPlacement.v # "IfcLocalPlacement"}
        IN  /\ Grows(errors', errors) /\ Grows(warnings', warnings) /\ Grows(info', info)
            /\ Len(ne) = Cardinality(nulls) + Cardinality(raws)
            /\ Len(nw) = Cardinality(others)
            /\ \A j \in nulls :
                 Occurrences(ne, "{}: ObjectPlacement is null (must be IfcLocalPlacement)",
                             <<NameText(Products[j])>>)
                 = Cardinality({n \in nulls : SameName(Products[n], Products[j])})
            /\ \A j \in raws :
                 Occurrences(ne, "{}: ObjectPlacement is not an IFC entity (possibly float)",
                             <<NameText(Products[j])>>)
                 = Cardinality({n \in raws : SameName(Products[n], Products[j])})
            /\ \A j \in others :
                 Occurrences(nw, "{}: ObjectPlacement is {} (expected IfcLocalPlacement)",
                             <<NameText(Products[j]), Products[j].ObjectPlacement.v>>)
                 = Cardinality({n \in others :
                                   /\ SameName(Products[n], Products[j])
                                   /\ Products[n].ObjectPlacement.v
                                        = Products[j].ObjectPlacement.v})
            /\ ni = << Msg("Checked {} products for valid placements",
                           <<>>, <<Len(Products)>>) >>
    ]_vars

Furnishings == {j \in DOMAIN Products : Products[j].type = "IfcFurnishingElement"}
HasCabinetSet(product) == "Pset_BoscotekCabinet" \in DOMAIN product.psets
MissingOf(product) == AllProps \ product.psets["Pset_BoscotekCabinet"]
Rank(prop) ==
    CASE prop = "BoscotekCode" -> 1
      [] prop = "Family" -> 2
      [] OTHER -> 3
\* the names of a set, once each, in the order BoscotekCode, Family, Manufacturer
InFixedOrder(props) ==
    CHOOSE s \in SeqsUpTo(AllProps, Cardinality(AllProps)) :
        /\ {s[j] : j \in DOMAIN s} = props
        /\ \A a, b \in DOMAIN s : a < b => Rank(s[a]) < Rank(s[b])

\* C4: the property-set check leaves the errors unchanged and appends exactly
\* one finding per furnishing element: a warning if Pset_BoscotekCabinet is
\* absent, a warning listing exactly the missing names in the order
\* BoscotekCode, Family, Manufacturer if some are missing, an info if none is.
C4_PropertySetFindings ==
    [][pc = "validate_property_sets" =>
        LET nw == NewOf(warnings', warnings)
            ni == NewOf(info', info)
            absent == {j \in Furnishings : ~HasCabinetSet(Products[j])}
            partial == {j \in Furnishings :
                           HasCabinetSet(Products[j]) /\ MissingOf(Products[j]) # {}}
            complete == {j \in Furnishings :
                            HasCabinetSet(Products[j]) /\ MissingOf(Products[j]) = {}}
        IN  /\ errors' = errors
            /\ Grows(warnings', warnings) /\ Grows(info', info)
            /\ Len(nw) = Cardinality(absent) + Cardinality(partial)
            /\ Len(ni) = Cardinality(complete)
            /\ \A j \in absent :
                 Occurrences(nw, "{}: Missing Pset_BoscotekCabinet property set",
                             <<NameText(Products[j])>>)
                 = Cardinality({n \in absent : SameName(Products[n], Products[j])})
            /\ \A j \in partial :
                 Occurrences(nw, "{}: Missing properties: {}",
                             <<NameText(Products[j])>>
                                \o InFixedOrder(MissingOf(Products[j])))
                 = Cardinality({n \in partial :
                                   /\ SameName(Products[n], Products[j])
                                   /\ MissingOf(Products[n]) = MissingOf(Products[j])})
            /\ \A j \in complete :
                 Occurrences(ni, "{}: Has complete Pset_BoscotekCabinet",
                             <<NameText(Products[j])>>)
                 = Cardinality({n \in complete : SameName(Products[n], Products[j])})
    ]_vars

C4_Witness ==
    /\ pc = "validate_relationships"
    /\ \E j \in Furnishings :
         /\ HasCabinetSet(Products[j])
         /\ MissingOf(Products[j]) = {"BoscotekCode", "Manufacturer"}
         /\ Occurrences(warnings, "{}: Missing properties: {}",
                        <<NameText(Products[j]), "BoscotekCode", "Manufacturer">>) = 1
    /\ \E j \in Furnishings : ~HasCabinetSet(Products[j])
    /\ Len(errors) = 0

\* C5: the units check appends exactly one finding in every run: an error if
\* there is no project, if the first project's unit context is null or if its
\* unit list holds no LENGTHUNIT; for the first LENGTHUNIT of the list an info
\* if its prefix is MILLI, else a warning carrying the prefix (None if absent).
C5_UnitsOneFinding ==
    [][pc = "validate_units" =>
        LET ne == NewOf(errors', errors)
            nw == NewOf(warnings', warnings)
            ni == NewOf(info', info)
            projects == input.file.projects
        IN  /\ Len(ne) + Len(nw) + Len(ni) = 1
            /\ IF Len(projects) = 0 \/ projects[1].UnitsInContext.k = "null"
               THEN Len(ne) = 1
               ELSE LET units == projects[1].UnitsInContext.Units.v
                        lengths == {j \in DOMAIN units :
                                       /\ units[j].hasUnitType
                                       /\ units[j].UnitType = "LENGTHUNIT"}
                    IN  IF lengths = {}
                        THEN Len(ne) = 1
                        ELSE LET first == CHOOSE j \in lengths : \A n \in lengths : j <= n
                                 unit == units[first]
                             IN  IF /\ unit.hasPrefix
                                    /\ unit.Prefix.k = "str"
                                    /\ unit.Prefix.v = "MILLI"
                                 THEN Len(ni) = 1
                                 ELSE /\ Len(nw) = 1
                                      /\ nw[1].strs =
                                           << IF unit.hasPrefix /\ unit.Prefix.k = "str"
                                              THEN unit.Prefix.v
                                              ELSE "None" >>
    ]_vars

Aggregates == input.file.aggregates
Containments == input.file.containments
IsEntity(x) == x.k = "entity"

\* C6: the relationship check appends exactly: per aggregation, one error if
\* the relating object is no entity, and one error if the related objects are
\* empty or else one error per member that is no entity; per containment, one
\* error if the relating structure is no entity, one warning if it is an
\* IfcBuilding, one info if it is an IfcBuildingStorey, nothing for another
\* type; then one info with the number of aggregations and of containments.
C6_RelationshipFindings ==
    [][pc = "validate_relationships" =>
        LET ne == NewOf(errors', errors)
            nw == NewOf(warnings', warnings)
            ni == NewOf(info', info)
            badRelating == {j \in DOMAIN Aggregates :
                               ~IsEntity(Aggregates[j].RelatingObject)}
            emptyRelated == {j \in DOMAIN Aggregates :
                                Len(Aggregates[j].RelatedObjects.v) = 0}
            badMembers == {p \in (DOMAIN Aggregates) \X (1..MaxRelated) :
                              /\ p[2] \in DOMAIN Aggregates[p[1]].RelatedObjects.v
                              /\ ~IsEntity(Aggregates[p[1]].RelatedObjects.v[p[2]])}
            badStructure == {j \in DOMAIN Containments :
                                ~IsEntity(Containments[j].RelatingStructure)}
            inBuilding == {j \in DOMAIN Containments :
                              Containments[j].RelatingStructure = Ent("IfcBuilding")}
            inStorey == {j \in DOMAIN Containments :
                            Containments[j].RelatingStructure = Ent("IfcBuildingStorey")}
        IN  /\ Grows(errors', errors) /\ Grows(warnings', warnings) /\ Grows(info', info)
            /\ WithText(ne, "IfcRelAggregates.RelatingObject is not an entity (possibly float)")
                 = Cardinality(badRelating)
            /\ WithText(ne, "IfcRelAggregates.RelatedObjects is empty")
                 = Cardinality(emptyRelated)
            /\ WithText(ne, "IfcRelAggregates.RelatedObjects contains non-entity (possibly float)")
                 = Cardinality(badMembers)
            /\ WithText(ne, "IfcRelContainedInSpatialStructure.RelatingStructure is not an entity")
                 = Cardinality(badStructure)
            /\ Len(ne) = Cardinality(badRelating) + Cardinality(emptyRelated)
                         + Cardinality(badMembers) + Cardinality(badStructure)
            /\ Len(nw) = Cardinality(inBuilding)
            /\ \A j \in DOMAIN nw :
                 nw[j].text = "Products contained in IfcBuilding (should be IfcBuildingStorey)"
            /\ Len(ni) = Cardinality(inStorey) + 1
            /\ \A j \in 1..(Len(ni) - 1) :
                 ni[j].text = "Products correctly contained in IfcBuildingStorey"
            /\ ni[Len(ni)] = Msg("Validated {} aggregation and {} containment relationships",
                                 <<>>, <<Len(Aggregates), Len(Containments)>>)
    ]_vars

C6_Witness ==
    /\ pc = "print_results"
    /\ Len(Aggregates) >= 2
    /\ \A j \in DOMAIN Aggregates :
         /\ ~IsEntity(Aggregates[j].RelatingObject)
         /\ Len(Aggregates[j].RelatedObjects.v) >= 2
         /\ \A n \in DOMAIN Aggregates[j].RelatedObjects.v :
              ~IsEntity(Aggregates[j].RelatedObjects.v[n])
    /\ WithText(errors, "IfcRelAggregates.RelatingObject is not an entity (possibly float)") >= 2
    /\ WithText(errors, "IfcRelAggregates.RelatedObjects contains non-entity (possibly float)") >= 4
    /\ WithText(info, "Products correctly contained in IfcBuildingStorey") = 1

\* C7: once the provider has opened the file, no check raises on absent data:
\* the run ends with all seven checks and the reporter done and never through
\* main's `ERROR: <message>` handler.
C7_AbsenceNeverRaises ==
    (pc = "exited" /\ Launched) => (exc = "" /\ calls = AllCalls)

ReportTexts ==
    { Banner.text, "IFC VALIDATION: {}", "VALIDATION RESULTS", "ERRORS ({}):",
      "WARNINGS ({}):", "PASSED CHECKS ({}):", "VALIDATION FAILED",
      "VALIDATION PASSED WITH WARNINGS", "VALIDATION PASSED" }

\* C8: a run that fails before validation starts (no argument, a path that
\* does not exist, the provider failing to open the file) ends with status 1,
\* no check run, no finding recorded and no line of the report printed; with
\* no argument the provider was never asked to open a file.
C8_EarlyFailure ==
    (pc = "exited" /\ ~Launched) =>
        /\ exitStatus = 1
        /\ calls = << >>
        /\ errors = << >> /\ warnings = << >> /\ info = << >>
        /\ \A j \in DOMAIN stdout :
             stdout[j].kind = "text" /\ stdout[j].text \notin ReportTexts
        /\ (Len(input.argv) < 1 => opens = 0)

C8_Witness ==
    /\ pc = "exited"
    /\ input.exists /\ ~input.opens
    /\ opens = 1
    /\ exitStatus = 1
    /\ \E j \in DOMAIN stdout : stdout[j].text = "ERROR: {}"

\* C9: every run that opens the file executes the seven checks once each in
\* the fixed order, whatever the earlier ones found, and then the reporter;
\* the report lists the findings of each severity in insertion order,
\* duplicates included (a file without a project reports the missing project
\* twice, once from the units check and once from the hierarchy check).
C9_AllChecksInOrder ==
    (pc = "exited" /\ Launched) =>
        /\ calls = AllCalls
        /\ SelectSeq(stdout, LAMBDA l : l.kind = "error") = Items("error", errors)
        /\ SelectSeq(stdout, LAMBDA l : l.kind = "warning") = Items("warning", warnings)
        /\ SelectSeq(stdout, LAMBDA l : l.kind = "info") = Items("info", info)
        /\ (Len(input.file.projects) = 0
              => Occurrences(errors, "No IfcProject found", <<>>) = 2)

Elements ==
    {j \in DOMAIN Products :
        Products[j].type \notin {"IfcProject", "IfcSite", "IfcBuilding", "IfcBuildingStorey"}}
NoGeometry == {j \in Elements : Products[j].Representation.k = "null"}
NoObjectType ==
    {j \in Elements \ NoGeometry :
        \/ Products[j].ObjectType.k = "null"
        \/ Products[j].ObjectType = Str("")}

\* C10: the product check appends no error, nothing for a product of type
\* Project, Site, Building or BuildingStorey, and for any other product one
\* geometry warning if its Representation is null, otherwise one ObjectType
\* warning if its ObjectType is null or empty, otherwise nothing; then one
\* info with the number of IfcFurnishingElement entities of the file.
C10_ProductFindings ==
    [][pc = "validate_products" =>
        LET nw == NewOf(warnings', warnings)
            ni == NewOf(info', info)
        IN  /\ errors' = errors
            /\ Grows(warnings', warnings) /\ Grows(info', info)
            /\ Len(nw) = Cardinality(NoGeometry) + Cardinality(NoObjectType)
            /\ \A j \in NoGeometry :
                 Occurrences(nw, "{}: No Representation (geometry missing)",
                             <<NameText(Products[j])>>)
                 = Cardinality({n \in NoGeometry : SameName(Products[n], Products[j])})
            /\ \A j \in NoObjectType :
                 Occurrences(nw, "{}: ObjectType not set (should be Boscotek code)",
                             <<NameText(Products[j])>>)
                 = Cardinality({n \in NoObjectType : SameName(Products[n], Products[j])})
            /\ ni = << Msg("Found {} IfcFurnishingElement(s)",
                           <<>>, <<Cardinality(Furnishings)>>) >>
    ]_vars

C10_Witness ==
    /\ pc = "validate_property_sets"
    /\ \E j \in NoGeometry : Products[j].ObjectType.k = "null"
    /\ \E j \in NoObjectType : Products[j].ObjectType = Str("")
    /\ \E j \in DOMAIN Products :
         Products[j].type = "IfcBuildingStorey" /\ Products[j].Representation.k = "null"
    /\ WithText(warnings, "{}: No Representation (geometry missing)") = 1
    /\ WithText(warnings, "{}: ObjectType not set (should be Boscotek code)") = 1

====
